---- MODULE Spec2Model ----
(***************************************************************************)
(* A model of juce_Thread.cpp: the managed-thread lifecycle (startThread,  *)
(* threadEntryPoint, stopThread, setPriority, ...) and the process-wide    *)
(* list of running threads.                                                *)
(*                                                                         *)
(* Thread objects are "t1", "t2".  Native threads created by               *)
(* juce_createThread are numbered 1, 2, ... in creation order; the number  *)
(* serves both as the native handle and as the OS thread id (0 is the      *)
(* null handle / null id).  Unmanaged calling threads have the negative    *)
(* ids -1, -2.  Every statement of the source that reads or writes shared  *)
(* state is one step, so that all interleavings of the code are explored.  *)
(* A run() is a loop that polls threadShouldExit(): it returns once it     *)
(* sees the flag, or never.                                                *)
(*                                                                         *)
(* Spec is the lifecycle (start, stop, signal); SpecInTime is Spec with    *)
(* threads that exit within the timeout given to stopThread; SpecPriority  *)
(* adds startThread (int) and setPriority, with a platform priority call   *)
(* that may fail.  In each behaviour the two calling threads either share  *)
(* Thread t1 or use one Thread each.                                       *)
(***************************************************************************)
EXTENDS Integers, Sequences, FiniteSets, TLC

\* ------------------------------------------------------------------ bounds
\* Native threads that can be created in one behaviour.
MaxNative == 2

\* ------------------------------------------------------- program constants
DefaultPriority == 5
sleepMsPerIteration == 5

\* -------------------------------------------------------------- universes
Threads == {"t1", "t2"}
Callers == {-1, -2}
Natives == 1..MaxNative
Timeouts == {-1, 0, 3, 5}
WaitTimeouts == Timeouts \cup {12}
OwnTimeouts == {5}
PrioArgs == {8}
AffinityArgs == {0, 2}
NullThread == "null"

VARIABLES
    threadHandle_,          \* Thread::threadHandle_   (0 = null)
    threadId_,              \* Thread::threadId_       (0 = none)
    threadPriority_,        \* Thread::threadPriority_ (the cached priority)
    threadShouldExit_,      \* Thread::threadShouldExit_
    affinityMask_,          \* Thread::affinityMask_  (0 = no constraint)
    startSuspensionEvent_,  \* Thread::startSuspensionEvent_ : signalled?
    defaultEvent_,          \* Thread::defaultEvent_         : signalled?
    startStopLock,          \* Thread::startStopLock : owner id, 0 = free
    runningThreads,         \* static VoidArray runningThreads
    runningThreadsLock,     \* static CriticalSection : owner id, 0 = free
    native,                 \* the native threads: pc, Thread object, priority, kills,
                            \* the affinity calls made, and the locals of a call
                            \* made inside run()
    created,                \* number of native threads created so far
    currentPriority,        \* OS priority of each unmanaged calling thread
    caller,                 \* the calling threads: pc and locals of the call
    sharing                 \* "same": both calling threads use Thread t1;
                            \* "own": each calling thread uses its own Thread

instVars == <<threadHandle_, threadId_, threadPriority_, threadShouldExit_,
              affinityMask_, startSuspensionEvent_, defaultEvent_, startStopLock>>
regVars == <<runningThreads, runningThreadsLock>>
natVars == <<native, created>>
vars == <<threadHandle_, threadId_, threadPriority_, threadShouldExit_,
          affinityMask_, startSuspensionEvent_, defaultEvent_, startStopLock,
          runningThreads, runningThreadsLock, native, created,
          currentPriority, caller, sharing>>

\* ----------------------------------------------------------------- helpers
\* C integer division truncates toward zero.
CDiv(a, b) == IF a >= 0 THEN a \div b ELSE -((-a) \div b)

\* VoidArray::add, contains, removeValue (removes the first match), operator[]
ArrayAdd(arr, t) == Append(arr, t)
ArrayContains(arr, t) == \E i \in 1..Len(arr) : arr[i] = t
FirstIndexOf(arr, t) == CHOOSE i \in 1..Len(arr) : arr[i] = t /\ \A j \in 1..(i-1) : arr[j] # t
ArrayRemoveValue(arr, t) ==
    IF ArrayContains(arr, t)
    THEN LET k == FirstIndexOf(arr, t)
         IN  [i \in 1..(Len(arr)-1) |-> IF i < k THEN arr[i] ELSE arr[i+1]]
    ELSE arr

\* CriticalSection (re-entrant): a thread may enter when the section is free
\* or already its own.
CanEnter(lock, who) == lock = 0 \/ lock = who

\* WaitableEvent: signal() sets the event; wait() reports whether the event
\* is signalled and leaves it signalled (level-triggered).
EventSignal(ev) == TRUE
EventWait(ev) == ev

\* A native thread that is executing or able to execute code.
LivePcs == {"entry", "adding", "registered", "gate", "run", "selfwait", "waiting",
            "exit", "removing", "closing", "clearing"}
IsLive(n) == n \in Natives /\ native[n].pc \in LivePcs

\* The part of threadEntryPoint between the add of line 60 and the remove of
\* line 84: the thread's object is in runningThreads.
RegisteredPcs == {"registered", "gate", "run", "selfwait", "waiting",
                  "exit", "removing"}

\* juce_killThread (handle): the native thread stops at once, wherever it is
\* ("at" remembers whether that was inside RegisteredPcs); whatever it holds
\* stays held.  A null handle, or the handle of a thread that has ended,
\* stops nothing.
KillNative(nat, h) ==
    IF h \in Natives
    THEN [nat EXCEPT ![h] = IF nat[h].pc \in LivePcs
                            THEN [pc |-> "killed", of |-> nat[h].of, prio |-> 0,
                                  kills |-> nat[h].kills + 1,
                                  at |-> IF nat[h].pc \in RegisteredPcs
                                         THEN "in" ELSE "out",
                                  arg |-> 0, count |-> 0, aff |-> <<>>]
                            ELSE [nat[h] EXCEPT !.kills = @ + 1]]
    ELSE nat

\* juce_setThreadPriority (handle, priority), when the platform call works:
\* a non-null handle names a native thread, a null handle the calling thread.
PlatformPriority(nat, h, p, worked) ==
    IF worked /\ h \in Natives /\ nat[h].pc \in LivePcs
    THEN [nat EXCEPT ![h].prio = p]
    ELSE nat
OwnPriority(cur, who, h, p, worked) ==
    IF worked /\ h = 0 /\ who \in Callers THEN [cur EXCEPT ![who] = p] ELSE cur

\* ------------------------------------------------------------------- Init
\* Thread::Thread : no handle, priority 5, no id, flag clear; nothing runs.
IdleCall == [pc |-> "idle", op |-> "none", t |-> NullThread, arg |-> 0,
             count |-> 0, h |-> 0, wait |-> "none"]
UnbornNative == [pc |-> "unborn", of |-> NullThread, prio |-> 0, kills |-> 0,
                 at |-> "none", arg |-> 0, count |-> 0, aff |-> <<>>]

Init ==
    /\ threadHandle_ = [t \in Threads |-> 0]
    /\ threadId_ = [t \in Threads |-> 0]
    /\ threadPriority_ = [t \in Threads |-> DefaultPriority]
    /\ threadShouldExit_ = [t \in Threads |-> FALSE]
    /\ affinityMask_ = [t \in Threads |-> 0]
    /\ startSuspensionEvent_ = [t \in Threads |-> FALSE]
    /\ defaultEvent_ = [t \in Threads |-> FALSE]
    /\ startStopLock = [t \in Threads |-> 0]
    /\ runningThreads = <<>>
    /\ runningThreadsLock = 0
    /\ native = [n \in Natives |-> UnbornNative]
    /\ created = 0
    /\ currentPriority = [c \in Callers |-> 0]
    /\ caller = [c \in Callers |-> IdleCall]
    /\ sharing \in {"same", "own"}

\* --------------------------------------------------- Thread::threadEntryPoint
\* line 59: const ScopedLock sl (runningThreadsLock);
EntryLock(n) ==
    /\ native[n].pc = "entry"
    /\ CanEnter(runningThreadsLock, n)
    /\ runningThreadsLock' = n
    /\ native' = [native EXCEPT ![n].pc = "adding"]
    /\ UNCHANGED <<instVars, runningThreads, created, currentPriority, caller, sharing>>

\* line 60-61: runningThreads.add (thread); the lock is released
EntryAdd(n) ==
    /\ native[n].pc = "adding"
    /\ runningThreads' = ArrayAdd(runningThreads, native[n].of)
    /\ runningThreadsLock' = 0
    /\ native' = [native EXCEPT ![n].pc = "registered"]
    /\ UNCHANGED <<instVars, created, currentPriority, caller, sharing>>

\* line 65: thread->threadId_ = Thread::getCurrentThreadId();
\* (line 67-68, naming the OS thread, touches no state of the model)
EntrySetId(n) ==
    /\ native[n].pc = "registered"
    /\ threadId_' = [threadId_ EXCEPT ![native[n].of] = n]
    /\ native' = [native EXCEPT ![n].pc = "gate"]
    /\ UNCHANGED <<affinityMask_, threadHandle_, threadPriority_, threadShouldExit_,
                   startSuspensionEvent_, defaultEvent_, startStopLock,
                   regVars, created, currentPriority, caller, sharing>>

\* Faulty variant of AffinityAtGate: the mask is applied even when it is 0.
AffinityAlwaysSet(calls, mask) == Append(calls, mask)

\* line 72-73: if (thread->affinityMask_ != 0) setCurrentThreadAffinityMask (...)
\* ("aff" lists the masks the native thread has been given)
AffinityAtGate(calls, mask) == IF mask # 0 THEN Append(calls, mask) ELSE calls

\* line 70-75: startSuspensionEvent_.wait (10000) returned true: the mask is
\* read and applied, run() begins.  (The read of line 72 follows the wait on
\* the same thread and a setAffinityMask commutes with the wait's return, so
\* the two are one step.)
EntryGateOpen(n) ==
    /\ native[n].pc = "gate"
    /\ EventWait(startSuspensionEvent_[native[n].of])
    /\ native' = [native EXCEPT ![n].pc = "run",
                                ![n].aff = AffinityAtGate(@, affinityMask_[native[n].of])]
    /\ UNCHANGED <<instVars, regVars, created, currentPriority, caller, sharing>>

\* line 70: the wait timed out with the event unsignalled: run() is skipped
EntryGateTimeout(n) ==
    /\ native[n].pc = "gate"
    /\ ~EventWait(startSuspensionEvent_[native[n].of])
    /\ native' = [native EXCEPT ![n].pc = "exit"]
    /\ UNCHANGED <<instVars, regVars, created, currentPriority, caller, sharing>>

\* EntryGateTimeout with a note in "at" that run() was skipped.
EntryGateSkips(n) ==
    /\ native[n].pc = "gate"
    /\ ~EventWait(startSuspensionEvent_[native[n].of])
    /\ native' = [native EXCEPT ![n].pc = "exit", ![n].at = "skipped"]
    /\ UNCHANGED <<instVars, regVars, created, currentPriority, caller, sharing>>

\* run() polls threadShouldExit() (line 154-157 set the flag) and returns once
\* it sees the flag set.  A run() that ignores the flag never takes this step.
RunSeesExit(n) ==
    /\ native[n].pc = "run"
    /\ threadShouldExit_[native[n].of]
    /\ native' = [native EXCEPT ![n].pc = "exit"]
    /\ UNCHANGED <<instVars, regVars, created, currentPriority, caller, sharing>>

\* line 63, 78: JUCE_TRY ... JUCE_CATCH_ALL_ASSERT: a fault of run() is caught
\* at the end of the block and the entry point goes on to line 80 ("at"
\* remembers the fault).
PcAfterFault == "exit"
RunFaults(n) ==
    /\ native[n].pc = "run"
    /\ native' = [native EXCEPT ![n].pc = PcAfterFault, ![n].at = "fault"]
    /\ UNCHANGED <<instVars, regVars, created, currentPriority, caller, sharing>>

\* Thread::getCurrentThread, line 257-272: the newest entry of the list whose
\* threadId_ is the caller's id, or null.  (A run() of this model is a loop
\* that polls threadShouldExit(); getCurrentThread is what it would be told.)
CurrentThreadOf(arr, ids, me) ==
    LET hits == {i \in 1..Len(arr) : ids[arr[i]] = me}
    IN  IF hits = {} THEN NullThread
        ELSE arr[CHOOSE i \in hits : \A j \in hits : j <= i]

\* line 81: const ScopedLock sl (runningThreadsLock);
ExitLock(n) ==
    /\ native[n].pc = "exit"
    /\ CanEnter(runningThreadsLock, n)
    /\ runningThreadsLock' = n
    /\ native' = [native EXCEPT ![n].pc = "removing"]
    /\ UNCHANGED <<instVars, runningThreads, created, currentPriority, caller, sharing>>

\* line 84-85: runningThreads.removeValue (thread); the lock is released
ExitRemove(n) ==
    /\ native[n].pc = "removing"
    /\ runningThreads' = ArrayRemoveValue(runningThreads, native[n].of)
    /\ runningThreadsLock' = 0
    /\ native' = [native EXCEPT ![n].pc = "closing"]
    /\ UNCHANGED <<instVars, created, currentPriority, caller, sharing>>

\* Faulty variant of HandleAtExit: the exiting thread leaves the handle set.
HandleKeptAtExit(h) == h

\* line 91: thread->threadHandle_ = 0;
HandleAtExit(h) == 0
ExitClearHandle(n) ==
    /\ native[n].pc = "closing"
    /\ threadHandle_' = [threadHandle_ EXCEPT ![native[n].of] = HandleAtExit(@)]
    /\ native' = [native EXCEPT ![n].pc = "clearing"]
    /\ UNCHANGED <<affinityMask_, threadId_, threadPriority_, threadShouldExit_,
                   startSuspensionEvent_, defaultEvent_, startStopLock,
                   regVars, created, currentPriority, caller, sharing>>

\* line 92: thread->threadId_ = 0;  the native thread ends
ExitClearId(n) ==
    /\ native[n].pc = "clearing"
    /\ threadId_' = [threadId_ EXCEPT ![native[n].of] = 0]
    /\ native' = [native EXCEPT ![n].pc = "finished", ![n].prio = 0]
    /\ UNCHANGED <<affinityMask_, threadHandle_, threadPriority_, threadShouldExit_,
                   startSuspensionEvent_, defaultEvent_, startStopLock,
                   regVars, created, currentPriority, caller, sharing>>

NativeStep(n) ==
    \/ EntryLock(n) \/ EntryAdd(n) \/ EntrySetId(n)
    \/ EntryGateOpen(n) \/ EntryGateTimeout(n)
    \/ RunSeesExit(n)
    \/ ExitLock(n) \/ ExitRemove(n) \/ ExitClearHandle(n) \/ ExitClearId(n)

\* ------------------------------------------------------------ calling threads
\* A calling thread that is between two calls may begin a call.  The record
\* holds the call's locals: target, argument, the count and the result of
\* waitForThreadToExit, and the handle juce_createThread returned or
\* juce_killThread was given.
Call(c, first, op, t, arg) ==
    [pc |-> first, op |-> op, t |-> t, arg |-> arg,
     count |-> 0, h |-> 0, wait |-> "none"]
Goto(c, pc) == [caller EXCEPT ![c].pc = pc]
\* A stopThread called by stopAllThreads (line 292) returns into its loop.
Return(c) ==
    IF caller[c].op = "stopAllThreads" /\ caller[c].pc # "sa_pick"
    THEN [caller EXCEPT ![c] = Call(c, "sa_pick", "stopAllThreads", NullThread,
                                    caller[c].arg)]
    ELSE [caller EXCEPT ![c] = IdleCall]

\* Calls that have begun a startThread and may still reach juce_createThread:
\* a start is begun only while fewer than MaxNative native threads are created
\* or about to be.
StartPcs == {"st_flag", "st_check", "sp_set"}
PendingStarts == Cardinality({c \in Callers : caller[c].pc \in StartPcs})

\* ------------------------------------------------------- Thread::startThread()
\* Faulty variant of FlagAtStart: startThread leaves the flag as it is.
FlagKeptAtStart(old) == old

\* line 123: threadShouldExit_ = false;
FlagAtStart(old) == FALSE

\* line 121-123: the call enters startStopLock and clears the flag
CallStartThread(c, t) ==
    /\ caller[c].pc = "idle"
    /\ created + PendingStarts < MaxNative
    /\ CanEnter(startStopLock[t], c)
    /\ startStopLock' = [startStopLock EXCEPT ![t] = c]
    /\ threadShouldExit_' = [threadShouldExit_ EXCEPT ![t] = FlagAtStart(@)]
    /\ caller' = [caller EXCEPT ![c] = Call(c, "st_check", "startThread", t, 0)]
    /\ UNCHANGED <<affinityMask_, threadHandle_, threadId_, threadPriority_,
                   startSuspensionEvent_, defaultEvent_,
                   regVars, natVars, currentPriority, sharing>>

\* CallStartThread made while the thread of the previous start has returned
\* from run() (it did not skip it at the gate), has removed the instance from
\* the list (line 84) and has not yet cleared the handle (line 91); "wait"
\* notes that the call is such a one.
CallStartThreadLate(c, t) ==
    /\ caller[c].pc = "idle"
    /\ threadHandle_[t] \in Natives
    /\ native[threadHandle_[t]].pc = "closing"
    /\ native[threadHandle_[t]].at # "skipped"
    /\ created + PendingStarts < MaxNative
    /\ CanEnter(startStopLock[t], c)
    /\ startStopLock' = [startStopLock EXCEPT ![t] = c]
    /\ threadShouldExit_' = [threadShouldExit_ EXCEPT ![t] = FlagAtStart(@)]
    /\ caller' = [caller EXCEPT ![c] =
           [Call(c, "st_check", "startThread", t, 0) EXCEPT !.wait = "late"]]
    /\ UNCHANGED <<affinityMask_, threadHandle_, threadId_, threadPriority_,
                   startSuspensionEvent_, defaultEvent_,
                   regVars, natVars, currentPriority, sharing>>

\* line 140 -> 123: startThread() called by startThread (int), lock already held
StartClearFlag(c) ==
    /\ caller[c].pc = "st_flag"
    /\ threadShouldExit_' = [threadShouldExit_ EXCEPT ![caller[c].t] = FlagAtStart(@)]
    /\ caller' = Goto(c, "st_check")
    /\ UNCHANGED <<affinityMask_, threadHandle_, threadId_, threadPriority_,
                   startSuspensionEvent_, defaultEvent_, startStopLock,
                   regVars, natVars, currentPriority, sharing>>

\* Faulty variant of StartNeedsThread: a thread is created whatever the handle.
AlwaysNeedsThread(h) == TRUE

\* line 125: if (threadHandle_ == 0)
StartNeedsThread(h) == h = 0

\* line 125-127: juce_createThread ((void*) this): a new native thread exists
\* and may run at once; the handle is still in the caller's hands.
StartCreate(c) ==
    /\ caller[c].pc = "st_check"
    /\ StartNeedsThread(threadHandle_[caller[c].t])
    /\ created < MaxNative
    /\ created' = created + 1
    /\ native' = [native EXCEPT ![created + 1] =
                      [pc |-> "entry", of |-> caller[c].t, prio |-> 0, kills |-> 0,
                       at |-> "none", arg |-> 0, count |-> 0, aff |-> <<>>]]
    /\ caller' = [caller EXCEPT ![c].pc = "st_store", ![c].h = created + 1]
    /\ UNCHANGED <<instVars, regVars, currentPriority, sharing>>

\* line 125, 131: the handle is set: nothing is created, the lock is released
StartNothing(c) ==
    /\ caller[c].pc = "st_check"
    /\ ~StartNeedsThread(threadHandle_[caller[c].t])
    /\ startStopLock' = [startStopLock EXCEPT ![caller[c].t] = 0]
    /\ caller' = Return(c)
    /\ UNCHANGED <<affinityMask_, threadHandle_, threadId_, threadPriority_, threadShouldExit_,
                   startSuspensionEvent_, defaultEvent_,
                   regVars, natVars, currentPriority, sharing>>

\* Faulty variant of StartStoreHandle: startThread also lists the instance.
StartStoreAndList(c) ==
    /\ caller[c].pc = "st_store"
    /\ threadHandle_' = [threadHandle_ EXCEPT ![caller[c].t] = caller[c].h]
    /\ runningThreads' = ArrayAdd(runningThreads, caller[c].t)
    /\ caller' = Goto(c, "st_prio")
    /\ UNCHANGED <<affinityMask_, threadId_, threadPriority_, threadShouldExit_,
                   startSuspensionEvent_, defaultEvent_, startStopLock,
                   runningThreadsLock, natVars, currentPriority, sharing>>

\* line 127: threadHandle_ = (the handle juce_createThread returned)
StartStoreHandle(c) ==
    /\ caller[c].pc = "st_store"
    /\ threadHandle_' = [threadHandle_ EXCEPT ![caller[c].t] = caller[c].h]
    /\ caller' = Goto(c, "st_prio")
    /\ UNCHANGED <<affinityMask_, threadId_, threadPriority_, threadShouldExit_,
                   startSuspensionEvent_, defaultEvent_, startStopLock,
                   regVars, natVars, currentPriority, sharing>>

\* line 128: juce_setThreadPriority (threadHandle_, threadPriority_);
\* the result is ignored
StartApplyPriority(c, W) ==
    /\ caller[c].pc = "st_prio"
    /\ \E worked \in W :
         /\ native' = PlatformPriority(native, threadHandle_[caller[c].t],
                                       threadPriority_[caller[c].t], worked)
         /\ currentPriority' = OwnPriority(currentPriority, c, threadHandle_[caller[c].t],
                                           threadPriority_[caller[c].t], worked)
    /\ caller' = Goto(c, "st_signal")
    /\ UNCHANGED <<instVars, regVars, created, sharing>>

\* line 129-131: startSuspensionEvent_.signal(); the lock is released
StartSignal(c) ==
    /\ caller[c].pc = "st_signal"
    /\ startSuspensionEvent_' = [startSuspensionEvent_ EXCEPT ![caller[c].t] = EventSignal(@)]
    /\ startStopLock' = [startStopLock EXCEPT ![caller[c].t] = 0]
    /\ caller' = Return(c)
    /\ UNCHANGED <<affinityMask_, threadHandle_, threadId_, threadPriority_, threadShouldExit_,
                   defaultEvent_, regVars, natVars, currentPriority, sharing>>

\* ----------------------------------------- Thread::startThread (int priority)
\* Faulty variant of StartPriorityBranch: the idle branch is always taken.
AlwaysIdleBranch(h) == "sp_set"

\* line 137: if (threadHandle_ == 0) ... else ...
StartPriorityBranch(h) == IF h = 0 THEN "sp_set" ELSE "sp_prio"

\* line 135-137: the call enters startStopLock and tests the handle
CallStartThreadPriority(c, t, p) ==
    /\ caller[c].pc = "idle"
    /\ created + PendingStarts < MaxNative
    /\ CanEnter(startStopLock[t], c)
    /\ startStopLock' = [startStopLock EXCEPT ![t] = c]
    /\ caller' = [caller EXCEPT ![c] =
           Call(c, StartPriorityBranch(threadHandle_[t]), "startThreadPriority", t, p)]
    /\ UNCHANGED <<affinityMask_, threadHandle_, threadId_, threadPriority_, threadShouldExit_,
                   startSuspensionEvent_, defaultEvent_,
                   regVars, natVars, currentPriority, sharing>>

\* line 139-140: threadPriority_ = priority; startThread() follows (the lock
\* is re-entered by its owner)
StartPrioritySet(c) ==
    /\ caller[c].pc = "sp_set"
    /\ threadPriority_' = [threadPriority_ EXCEPT ![caller[c].t] = caller[c].arg]
    /\ caller' = Goto(c, "st_flag")
    /\ UNCHANGED <<affinityMask_, threadHandle_, threadId_, threadShouldExit_,
                   startSuspensionEvent_, defaultEvent_, startStopLock,
                   regVars, natVars, currentPriority, sharing>>

\* ------------------------------------------------------- Thread::setPriority
\* Faulty variant of CachedPriority: the cached priority is never updated.
NeverCached(old, p, worked) == old

\* Faulty variant of CachedPriority: the result of the platform call is ignored.
AlwaysCached(old, p, worked) == p

\* line 217-220: worked = juce_setThreadPriority (threadHandle_, priority);
\*               if (worked) threadPriority_ = priority;
CachedPriority(old, p, worked) == IF worked THEN p ELSE old
\* line 222: return worked;  (the calling thread keeps the value it was given
\* until its next call)
ReturnValue(worked) == IF worked THEN "true" ELSE "false"
SetPriorityBody(c, t, p, worked) ==
    /\ native' = PlatformPriority(native, threadHandle_[t], p, worked)
    /\ currentPriority' = OwnPriority(currentPriority, c, threadHandle_[t], p, worked)
    /\ threadPriority_' = [threadPriority_ EXCEPT ![t] = CachedPriority(@, p, worked)]
    /\ startStopLock' = [startStopLock EXCEPT ![t] = 0]
    /\ caller' = [caller EXCEPT ![c] = [IdleCall EXCEPT !.wait = ReturnValue(worked)]]
    /\ UNCHANGED <<affinityMask_, threadHandle_, threadId_, threadShouldExit_,
                   startSuspensionEvent_, defaultEvent_, regVars, created, sharing>>

\* line 144: setPriority (priority) called by startThread (int) on a set handle
StartPriorityApply(c) ==
    /\ caller[c].pc = "sp_prio"
    /\ \E worked \in BOOLEAN : SetPriorityBody(c, caller[c].t, caller[c].arg, worked)

\* line 213: setPriority (priority) is called
CallSetPriority(c, t, p) ==
    /\ caller[c].pc = "idle"
    /\ caller' = [caller EXCEPT ![c] = Call(c, "pr_enter", "setPriority", t, p)]
    /\ UNCHANGED <<instVars, regVars, natVars, currentPriority, sharing>>

\* line 213-223, under the lock of line 215
SetPriority(c) ==
    /\ caller[c].pc = "pr_enter"
    /\ CanEnter(startStopLock[caller[c].t], c)
    /\ \E worked \in BOOLEAN : SetPriorityBody(c, caller[c].t, caller[c].arg, worked)

\* ------------------------------------------- Thread::signalThreadShouldExit
\* Faulty variant of SignalThreadShouldExit: the flag is set under startStopLock.
SignalUnderLock(c, t) ==
    /\ caller[c].pc = "idle"
    /\ CanEnter(startStopLock[t], c)
    /\ threadShouldExit_' = [threadShouldExit_ EXCEPT ![t] = TRUE]
    /\ caller' = caller
    /\ UNCHANGED <<affinityMask_, threadHandle_, threadId_, threadPriority_,
                   startSuspensionEvent_, defaultEvent_, startStopLock,
                   regVars, natVars, currentPriority, sharing>>

\* line 156: threadShouldExit_ = true;  (no lock is taken)
SignalThreadShouldExit(c, t) ==
    /\ caller[c].pc = "idle"
    /\ threadShouldExit_' = [threadShouldExit_ EXCEPT ![t] = TRUE]
    /\ caller' = Return(c)
    /\ UNCHANGED <<affinityMask_, threadHandle_, threadId_, threadPriority_,
                   startSuspensionEvent_, defaultEvent_, startStopLock,
                   regVars, natVars, currentPriority, sharing>>

\* -------------------------------------------------------- Thread::stopThread
\* line 148-151: isThreadRunning()
IsThreadRunning(h) == h # 0

\* line 184-186: the call enters startStopLock and tests isThreadRunning();
\* on a thread that is not running it returns at once (line 209-210)
CallStopThread(c, t, timeOut) ==
    /\ caller[c].pc = "idle"
    /\ CanEnter(startStopLock[t], c)
    /\ IF IsThreadRunning(threadHandle_[t])
       THEN /\ startStopLock' = [startStopLock EXCEPT ![t] = c]
            /\ caller' = [caller EXCEPT ![c] = Call(c, "sx_flag", "stopThread", t, timeOut)]
       ELSE /\ startStopLock' = [startStopLock EXCEPT ![t] = 0]
            /\ caller' = Return(c)
    /\ UNCHANGED <<affinityMask_, threadHandle_, threadId_, threadPriority_, threadShouldExit_,
                   startSuspensionEvent_, defaultEvent_,
                   regVars, natVars, currentPriority, sharing>>

\* CallStopThread in two steps.  line 184: the call enters startStopLock
StopEnter(c, t, timeOut) ==
    /\ caller[c].pc = "idle"
    /\ CanEnter(startStopLock[t], c)
    /\ startStopLock' = [startStopLock EXCEPT ![t] = c]
    /\ caller' = [caller EXCEPT ![c] = Call(c, "sx_test", "stopThread", t, timeOut)]
    /\ UNCHANGED <<affinityMask_, threadHandle_, threadId_, threadPriority_, threadShouldExit_,
                   startSuspensionEvent_, defaultEvent_,
                   regVars, natVars, currentPriority, sharing>>

\* Faulty variant of StopTest: the flag is set whether the thread runs or not.
StopTestSignals(c) ==
    /\ caller[c].pc = "sx_test"
    /\ threadShouldExit_' = [threadShouldExit_ EXCEPT ![caller[c].t] = TRUE]
    /\ IF IsThreadRunning(threadHandle_[caller[c].t])
       THEN /\ caller' = Goto(c, "sx_notify")
            /\ UNCHANGED startStopLock
       ELSE /\ startStopLock' = [startStopLock EXCEPT ![caller[c].t] = 0]
            /\ caller' = Return(c)
    /\ UNCHANGED <<affinityMask_, threadHandle_, threadId_, threadPriority_,
                   startSuspensionEvent_, defaultEvent_,
                   regVars, natVars, currentPriority, sharing>>

\* line 186: if (isThreadRunning()); when it is not, line 209-210: the lock is
\* released and the call returns
StopTest(c) ==
    /\ caller[c].pc = "sx_test"
    /\ IF IsThreadRunning(threadHandle_[caller[c].t])
       THEN /\ caller' = Goto(c, "sx_flag")
            /\ UNCHANGED startStopLock
       ELSE /\ startStopLock' = [startStopLock EXCEPT ![caller[c].t] = 0]
            /\ caller' = Return(c)
    /\ UNCHANGED <<affinityMask_, threadHandle_, threadId_, threadPriority_, threadShouldExit_,
                   startSuspensionEvent_, defaultEvent_,
                   regVars, natVars, currentPriority, sharing>>

\* Faulty variant of StopSignalExit: line 188 is left out.
StopSkipsSignal(c) ==
    /\ caller[c].pc = "sx_flag"
    /\ caller' = Goto(c, "sx_notify")
    /\ UNCHANGED <<instVars, regVars, natVars, currentPriority, sharing>>

\* line 188: signalThreadShouldExit();
StopSignalExit(c) ==
    /\ caller[c].pc = "sx_flag"
    /\ threadShouldExit_' = [threadShouldExit_ EXCEPT ![caller[c].t] = TRUE]
    /\ caller' = Goto(c, "sx_notify")
    /\ UNCHANGED <<affinityMask_, threadHandle_, threadId_, threadPriority_,
                   startSuspensionEvent_, defaultEvent_, startStopLock,
                   regVars, natVars, currentPriority, sharing>>

\* Faulty variant of InitialCount: the quotient is rounded up.
InitialCountCeil(timeOut) == CDiv(timeOut + sleepMsPerIteration - 1, sleepMsPerIteration)

\* line 165: int count = timeOutMilliseconds / sleepMsPerIteration;
InitialCount(timeOut) == CDiv(timeOut, sleepMsPerIteration)

\* line 191: if (timeOutMilliseconds != 0) waitForThreadToExit (...)
StopWaits(timeOut) == timeOut # 0

\* line 189-192: notify(); then the wait begins, or is skipped for a timeout of 0
StopNotify(c) ==
    /\ caller[c].pc = "sx_notify"
    /\ defaultEvent_' = [defaultEvent_ EXCEPT ![caller[c].t] = EventSignal(@)]
    /\ caller' = IF StopWaits(caller[c].arg)
                 THEN [caller EXCEPT ![c].pc = "sx_wait",
                                     ![c].count = InitialCount(caller[c].arg)]
                 ELSE Goto(c, "sx_check")
    /\ UNCHANGED <<affinityMask_, threadHandle_, threadId_, threadPriority_, threadShouldExit_,
                   startSuspensionEvent_, startStopLock,
                   regVars, natVars, currentPriority, sharing>>

\* Faulty variant of BudgetExhausted: a negative timeout gives up at once.
ExhaustedIfNegative(timeOut, count) == timeOut < 0 \/ (timeOut > 0 /\ count - 1 < 0)

\* Faulty variant of BudgetExhausted: the budget also binds timeouts <= 0.
ExhaustedAnyTimeout(timeOut, count) == count - 1 < 0

\* line 169: if (timeOutMilliseconds > 0 && --count < 0) return false;
\* (count is decremented only when the timeout is positive)
CountAfterTest(timeOut, count) == IF timeOut > 0 THEN count - 1 ELSE count
BudgetExhausted(timeOut, count) == timeOut > 0 /\ count - 1 < 0

\* line 167, 175: while (isThreadRunning()) fails: the wait returns true
WaitSeesExit(c) ==
    /\ caller[c].pc = "sx_wait"
    /\ ~IsThreadRunning(threadHandle_[caller[c].t])
    /\ caller' = [caller EXCEPT ![c].pc = "sx_check", ![c].wait = "true"]
    /\ UNCHANGED <<instVars, regVars, natVars, currentPriority, sharing>>

\* The time the wait has slept so far: sleep() is the only statement of the
\* loop that takes time.
Elapsed(timeOut, count) == sleepMsPerIteration * (InitialCount(timeOut) - count)

\* line 169-170: the budget is used up: the wait returns false.  With inTime
\* the thread is one that has exited once timeOut ms have passed, so the test
\* of line 167 can only find it running before that.
WaitTimesOut(c, inTime) ==
    /\ caller[c].pc = "sx_wait"
    /\ IsThreadRunning(threadHandle_[caller[c].t])
    /\ BudgetExhausted(caller[c].arg, caller[c].count)
    /\ inTime => Elapsed(caller[c].arg, caller[c].count) < caller[c].arg
    /\ caller' = [caller EXCEPT ![c].pc = "sx_check", ![c].wait = "false",
                                ![c].count = CountAfterTest(caller[c].arg, @)]
    /\ UNCHANGED <<instVars, regVars, natVars, currentPriority, sharing>>

\* line 172: sleep (sleepMsPerIteration);
WaitSleeps(c) ==
    /\ caller[c].pc = "sx_wait"
    /\ IsThreadRunning(threadHandle_[caller[c].t])
    /\ ~BudgetExhausted(caller[c].arg, caller[c].count)
    /\ caller' = [caller EXCEPT ![c].count = CountAfterTest(caller[c].arg, @)]
    /\ UNCHANGED <<instVars, regVars, natVars, currentPriority, sharing>>

\* line 194, 209-210: the thread has exited: the lock is released
StopSeesExit(c) ==
    /\ caller[c].pc = "sx_check"
    /\ ~IsThreadRunning(threadHandle_[caller[c].t])
    /\ startStopLock' = [startStopLock EXCEPT ![caller[c].t] = 0]
    /\ caller' = Return(c)
    /\ UNCHANGED <<affinityMask_, threadHandle_, threadId_, threadPriority_, threadShouldExit_,
                   startSuspensionEvent_, defaultEvent_,
                   regVars, natVars, currentPriority, sharing>>

\* line 194: if (isThreadRunning())  -- the forced path is entered
StopSeesRunning(c) ==
    /\ caller[c].pc = "sx_check"
    /\ IsThreadRunning(threadHandle_[caller[c].t])
    /\ caller' = Goto(c, "sx_kill")
    /\ UNCHANGED <<instVars, regVars, natVars, currentPriority, sharing>>

\* Faulty variant of HandleAfterKill: the handle survives the kill.
HandleKept(h) == h

\* line 203-204: threadHandle_ = 0; threadId_ = 0;
HandleAfterKill(h) == 0
IdAfterKill(id) == 0

\* line 202-204: juce_killThread (threadHandle_); handle and id are cleared.
\* (The two stores are made under startStopLock on a thread that no longer
\* runs; they are one step.)
StopKill(c) ==
    /\ caller[c].pc = "sx_kill"
    /\ native' = KillNative(native, threadHandle_[caller[c].t])
    /\ threadHandle_' = [threadHandle_ EXCEPT ![caller[c].t] = HandleAfterKill(@)]
    /\ threadId_' = [threadId_ EXCEPT ![caller[c].t] = IdAfterKill(@)]
    /\ caller' = [caller EXCEPT ![c].pc = "sx_remove", ![c].h = threadHandle_[caller[c].t]]
    /\ UNCHANGED <<affinityMask_, threadPriority_, threadShouldExit_, startSuspensionEvent_,
                   defaultEvent_, startStopLock, regVars, created,
                   currentPriority, sharing>>

\* Faulty variant of ArrayAfterKill: stopThread leaves the list as it is.
ArrayUntouched(arr, t) == arr

\* line 206-210: under runningThreadsLock, runningThreads.removeValue (this);
\* both locks are released and the call returns
ArrayAfterKill(arr, t) == ArrayRemoveValue(arr, t)
StopRemove(c) ==
    /\ caller[c].pc = "sx_remove"
    /\ CanEnter(runningThreadsLock, c)
    /\ runningThreads' = ArrayAfterKill(runningThreads, caller[c].t)
    /\ startStopLock' = [startStopLock EXCEPT ![caller[c].t] = 0]
    /\ caller' = Return(c)
    /\ UNCHANGED <<affinityMask_, threadHandle_, threadId_, threadPriority_, threadShouldExit_,
                   startSuspensionEvent_, defaultEvent_, runningThreadsLock,
                   natVars, currentPriority, sharing>>

\* ----------------------------------------------- Thread::waitForThreadToExit
\* line 159-165: a calling thread calls waitForThreadToExit; no lock is taken.
\* The loop of line 167-173 is WaitSeesExit, WaitTimesOut and WaitSleeps.
CallWaitForThreadToExit(c, t, timeOut) ==
    /\ caller[c].pc = "idle"
    /\ caller' = [caller EXCEPT ![c] =
           [Call(c, "sx_wait", "waitForThreadToExit", t, timeOut)
               EXCEPT !.count = InitialCount(timeOut)]]
    /\ UNCHANGED <<instVars, regVars, natVars, currentPriority, sharing>>

\* line 170, 175: the call returns its result
WaitReturns(c) ==
    /\ caller[c].pc = "sx_check"
    /\ caller[c].op = "waitForThreadToExit"
    /\ caller' = Return(c)
    /\ UNCHANGED <<instVars, regVars, natVars, currentPriority, sharing>>

\* ------------------------------- Thread::waitForThreadToExit, inside run()
SelfTimeouts == {-1, 5}

\* line 162: jassert (getThreadId() != getCurrentThreadId()) fails
SelfCall(id, me) == id = me

\* line 159-165: run() calls waitForThreadToExit on its own Thread; a failed
\* jassert is noted in "at" and the call goes on
RunWaitsForItself(n, timeOut) ==
    /\ native[n].pc = "run"
    /\ native' = [native EXCEPT ![n].pc = "selfwait",
                                ![n].at = IF SelfCall(threadId_[native[n].of], n)
                                          THEN "asserted" ELSE @,
                                ![n].arg = timeOut,
                                ![n].count = InitialCount(timeOut)]
    /\ UNCHANGED <<instVars, regVars, created, currentPriority, caller, sharing>>

\* line 167, 175: the handle is null: the call returns true into run()
SelfWaitSeesExit(n) ==
    /\ native[n].pc = "selfwait"
    /\ ~IsThreadRunning(threadHandle_[native[n].of])
    /\ native' = [native EXCEPT ![n].pc = "run", ![n].arg = 0, ![n].count = 0]
    /\ UNCHANGED <<instVars, regVars, created, currentPriority, caller, sharing>>

\* line 169-170: the budget is used up: the call returns false into run()
SelfWaitTimesOut(n) ==
    /\ native[n].pc = "selfwait"
    /\ IsThreadRunning(threadHandle_[native[n].of])
    /\ BudgetExhausted(native[n].arg, native[n].count)
    /\ native' = [native EXCEPT ![n].pc = "run", ![n].arg = 0, ![n].count = 0]
    /\ UNCHANGED <<instVars, regVars, created, currentPriority, caller, sharing>>

\* line 172: sleep (sleepMsPerIteration);
SelfWaitSleeps(n) ==
    /\ native[n].pc = "selfwait"
    /\ IsThreadRunning(threadHandle_[native[n].of])
    /\ ~BudgetExhausted(native[n].arg, native[n].count)
    /\ native' = [native EXCEPT ![n].count = CountAfterTest(native[n].arg, @)]
    /\ UNCHANGED <<instVars, regVars, created, currentPriority, caller, sharing>>

\* line 154-157: run() calls signalThreadShouldExit() on its own Thread
RunSignalsItself(n) ==
    /\ native[n].pc = "run"
    /\ threadShouldExit_' = [threadShouldExit_ EXCEPT ![native[n].of] = TRUE]
    /\ UNCHANGED <<affinityMask_, threadHandle_, threadId_, threadPriority_,
                   startSuspensionEvent_, defaultEvent_, startStopLock,
                   regVars, natVars, currentPriority, caller, sharing>>

SelfWaitStep(n) ==
    \/ \E timeOut \in SelfTimeouts : RunWaitsForItself(n, timeOut)
    \/ SelfWaitSeesExit(n) \/ SelfWaitTimesOut(n) \/ SelfWaitSleeps(n)

\* --------------------------------------------- Thread::wait, Thread::notify
\* Faulty variant of WaitResult: wait reports a timeout whatever the event.
WaitAlwaysFalse(ev) == FALSE

\* line 243: return defaultEvent_.wait (timeOutMilliseconds);
WaitResult(ev) == EventWait(ev)
\* line 248: defaultEvent_.signal();
NotifyEvent(ev) == EventSignal(ev)

\* line 241: run() calls wait (timeOutMilliseconds) on its own Thread
RunWaits(n) ==
    /\ native[n].pc = "run"
    /\ native' = [native EXCEPT ![n].pc = "waiting"]
    /\ UNCHANGED <<instVars, regVars, created, currentPriority, caller, sharing>>

\* line 243: the event is signalled: wait returns true ("at" keeps the result)
WaitWoken(n) ==
    /\ native[n].pc = "waiting"
    /\ WaitResult(defaultEvent_[native[n].of])
    /\ native' = [native EXCEPT ![n].pc = "run", ![n].at = "woken"]
    /\ UNCHANGED <<instVars, regVars, created, currentPriority, caller, sharing>>

\* line 243: the time is up and the event is not signalled: wait returns false
WaitTimedOut(n) ==
    /\ native[n].pc = "waiting"
    /\ ~WaitResult(defaultEvent_[native[n].of])
    /\ native' = [native EXCEPT ![n].pc = "run", ![n].at = "timedout"]
    /\ UNCHANGED <<instVars, regVars, created, currentPriority, caller, sharing>>

\* line 246-249: notify()
Notify(c, t) ==
    /\ caller[c].pc = "idle"
    /\ defaultEvent_' = [defaultEvent_ EXCEPT ![t] = NotifyEvent(@)]
    /\ caller' = Return(c)
    /\ UNCHANGED <<affinityMask_, threadHandle_, threadId_, threadPriority_, threadShouldExit_,
                   startSuspensionEvent_, startStopLock,
                   regVars, natVars, currentPriority, sharing>>

\* ---------------------------------------------------- Thread::setAffinityMask
\* line 232: affinityMask_ = affinityMask;
MaskStored(old, mask) == mask

\* line 230-233: setAffinityMask (affinityMask)
SetAffinityMask(c, t, mask) ==
    /\ caller[c].pc = "idle"
    /\ affinityMask_' = [affinityMask_ EXCEPT ![t] = MaskStored(@, mask)]
    /\ caller' = Return(c)
    /\ UNCHANGED <<threadHandle_, threadId_, threadPriority_, threadShouldExit_,
                   startSuspensionEvent_, defaultEvent_, startStopLock,
                   regVars, natVars, currentPriority, sharing>>

\* ---------------------------------------------------- Thread::stopAllThreads
\* Faulty variant of FlagsAfterSignalAll: only the head of the list is signalled.
FlagsAfterSignalHead(flags, arr) ==
    [t \in Threads |-> IF Len(arr) > 0 /\ arr[1] = t THEN TRUE ELSE flags[t]]

\* line 279-280: every Thread of the list gets signalThreadShouldExit()
FlagsAfterSignalAll(flags, arr) ==
    [t \in Threads |-> IF ArrayContains(arr, t) THEN TRUE ELSE flags[t]]

\* line 276-281: under runningThreadsLock, the flag of every listed Thread is set
CallStopAllThreads(c, timeOut) ==
    /\ caller[c].pc = "idle"
    /\ \A d \in Callers : caller[d].pc \notin (StartPcs \cup {"st_store", "st_prio", "st_signal"})
    /\ CanEnter(runningThreadsLock, c)
    /\ threadShouldExit_' = FlagsAfterSignalAll(threadShouldExit_, runningThreads)
    /\ caller' = [caller EXCEPT ![c] = Call(c, "sa_pick", "stopAllThreads", NullThread, timeOut)]
    /\ UNCHANGED <<affinityMask_, threadHandle_, threadId_, threadPriority_,
                   startSuspensionEvent_, defaultEvent_, startStopLock,
                   regVars, natVars, currentPriority, sharing>>

\* line 286: runningThreads[0], or null when the list is empty
ArrayFirst(arr) == IF Len(arr) = 0 THEN NullThread ELSE arr[1]

\* line 285-290: the head of the list is read under the lock; an empty list
\* ends the loop and the call
StopAllPick(c) ==
    /\ caller[c].pc = "sa_pick"
    /\ CanEnter(runningThreadsLock, c)
    /\ caller' = IF ArrayFirst(runningThreads) = NullThread
                 THEN [caller EXCEPT ![c] = IdleCall]
                 ELSE [caller EXCEPT ![c].pc = "sa_stop",
                                     ![c].t = ArrayFirst(runningThreads)]
    /\ UNCHANGED <<instVars, regVars, natVars, currentPriority, sharing>>

\* line 292 -> 184-186: t->stopThread (timeOutMilliseconds) enters
\* startStopLock and tests isThreadRunning()
StopAllStop(c) ==
    /\ caller[c].pc = "sa_stop"
    /\ CanEnter(startStopLock[caller[c].t], c)
    /\ IF IsThreadRunning(threadHandle_[caller[c].t])
       THEN /\ startStopLock' = [startStopLock EXCEPT ![caller[c].t] = c]
            /\ caller' = Goto(c, "sx_flag")
       ELSE /\ startStopLock' = [startStopLock EXCEPT ![caller[c].t] = 0]
            /\ caller' = Return(c)
    /\ UNCHANGED <<affinityMask_, threadHandle_, threadId_, threadPriority_, threadShouldExit_,
                   startSuspensionEvent_, defaultEvent_,
                   regVars, natVars, currentPriority, sharing>>

\* The Thread objects a calling thread works on, and the timeouts it passes
\* (one timeout, long enough for one sleep, when each caller has its own
\* Thread).
OwnThread(c) == IF c = -1 THEN "t1" ELSE "t2"
Targets(c) == IF sharing = "same" THEN {"t1"} ELSE {OwnThread(c)}
TimeoutsUsed == IF sharing = "same" THEN Timeouts ELSE OwnTimeouts

\* The calls of calling thread c: startThread(), where W holds the outcomes of
\* the platform's priority call; stopThread; signalThreadShouldExit(); and
\* the calls about priorities.
StartStep(c, W) ==
    \/ \E t \in Targets(c) : CallStartThread(c, t)
    \/ StartCreate(c) \/ StartNothing(c)
    \/ StartStoreHandle(c) \/ StartApplyPriority(c, W) \/ StartSignal(c)

StopStep(c, inTime) ==
    \/ \E t \in Targets(c), timeOut \in TimeoutsUsed : CallStopThread(c, t, timeOut)
    \/ StopSignalExit(c) \/ StopNotify(c)
    \/ WaitSeesExit(c) \/ WaitTimesOut(c, inTime) \/ WaitSleeps(c)
    \/ StopSeesExit(c) \/ StopSeesRunning(c) \/ StopKill(c) \/ StopRemove(c)

SignalStep(c) == \E t \in Targets(c) : SignalThreadShouldExit(c, t)

PriorityStep(c) ==
    \/ \E t \in Targets(c), p \in PrioArgs : CallStartThreadPriority(c, t, p)
    \/ StartPrioritySet(c) \/ StartClearFlag(c) \/ StartPriorityApply(c)
    \/ \E t \in Targets(c), p \in PrioArgs : CallSetPriority(c, t, p)
    \/ SetPriority(c)

\* The lifecycle: start, stop and signal, from two calling threads.
Next ==
    \/ \E n \in Natives : NativeStep(n)
    \/ \E c \in Callers : StartStep(c, {TRUE})
    \/ \E c \in Callers : StopStep(c, FALSE)
    \/ \E c \in Callers : SignalStep(c)

Spec == Init /\ [][Next]_vars

\* The lifecycle with threads that exit within the timeout stopThread is given.
NextInTime ==
    \/ \E n \in Natives : NativeStep(n)
    \/ \E c \in Callers : StartStep(c, {TRUE})
    \/ \E c \in Callers : StopStep(c, TRUE)
    \/ \E c \in Callers : SignalStep(c)

SpecInTime == Init /\ [][NextInTime]_vars

\* Priorities: both calling threads start, signal and set priorities on t1;
\* the platform's priority call may fail.
InitPriority == Init /\ sharing = "same"

NextPriority ==
    \/ \E n \in Natives : NativeStep(n)
    \/ \E c \in Callers : StartStep(c, BOOLEAN)
    \/ \E c \in Callers : SignalStep(c)
    \/ \E c \in Callers : PriorityStep(c)

SpecPriority == InitPriority /\ [][NextPriority]_vars

\* stopAllThreads, called while no caller is starting a thread: each calling
\* thread starts its own Thread and calls stopAllThreads; no start begins
\* while a stopAllThreads is in progress.
NoStopAll == \A c \in Callers : caller[c].op # "stopAllThreads"

StopAllStep(c) ==
    \/ \E timeOut \in OwnTimeouts : CallStopAllThreads(c, timeOut)
    \/ StopAllPick(c) \/ StopAllStop(c)

StartStepQuiet(c) ==
    \/ \E t \in Targets(c) : NoStopAll /\ CallStartThread(c, t)
    \/ StartCreate(c) \/ StartNothing(c)
    \/ StartStoreHandle(c) \/ StartApplyPriority(c, {TRUE}) \/ StartSignal(c)

InitStopAll == Init /\ sharing = "own"

NextStopAll ==
    \/ \E n \in Natives : NativeStep(n)
    \/ \E c \in Callers : StartStepQuiet(c)
    \/ \E c \in Callers : StopStep(c, FALSE)
    \/ \E c \in Callers : StopAllStep(c)

SpecStopAll == InitStopAll /\ [][NextStopAll]_vars

\* The steps of a stopThread that has been entered (line 188-210).
StopBodyStep(c) ==
    \/ StopSignalExit(c) \/ StopNotify(c)
    \/ WaitSeesExit(c) \/ WaitTimesOut(c, FALSE) \/ WaitSleeps(c)
    \/ StopSeesExit(c) \/ StopSeesRunning(c) \/ StopKill(c) \/ StopRemove(c)

\* As SpecStopAll, with stopThread called by stopAllThreads only.
NextStopAllOnly ==
    \/ \E n \in Natives : NativeStep(n)
    \/ \E c \in Callers : StartStepQuiet(c)
    \/ \E c \in Callers : StopBodyStep(c)
    \/ \E c \in Callers : StopAllStep(c)

SpecStopAllOnly == InitStopAll /\ [][NextStopAllOnly]_vars

\* The lifecycle on t1 with run() bodies that may fault.
NextFault ==
    \/ \E n \in Natives : NativeStep(n) \/ RunFaults(n)
    \/ \E c \in Callers : StartStep(c, {TRUE})
    \/ \E c \in Callers : StopStep(c, FALSE)
    \/ \E c \in Callers : SignalStep(c)

SpecFault == InitPriority /\ [][NextFault]_vars

\* The lifecycle on t1 with run() bodies that wait for their own Thread or
\* signal it.
NextSelf ==
    \/ \E n \in Natives : NativeStep(n)
    \/ \E n \in Natives : SelfWaitStep(n)
    \/ \E n \in Natives : RunSignalsItself(n)
    \/ \E c \in Callers : StartStep(c, {TRUE})
    \/ \E c \in Callers : StopStep(c, FALSE)
    \/ \E c \in Callers : SignalStep(c)

SpecSelf == InitPriority /\ [][NextSelf]_vars

WaitStep(c) ==
    \/ \E t \in Targets(c), timeOut \in TimeoutsUsed : CallWaitForThreadToExit(c, t, timeOut)
    \/ WaitSeesExit(c) \/ WaitTimesOut(c, FALSE) \/ WaitSleeps(c)
    \/ WaitReturns(c)

\* Start, signal and waitForThreadToExit on t1, from two calling threads.
NextWait ==
    \/ \E n \in Natives : NativeStep(n)
    \/ \E c \in Callers : StartStep(c, {TRUE})
    \/ \E c \in Callers : SignalStep(c)
    \/ \E c \in Callers : WaitStep(c)

SpecWait == InitPriority /\ [][NextWait]_vars

NotifyStep(c) == \E t \in Targets(c) : Notify(c, t)

\* wait and notify: each calling thread starts, notifies and signals its own
\* Thread, whose run() loops on wait.
NextNotify ==
    \/ \E n \in Natives : NativeStep(n)
    \/ \E n \in Natives : RunWaits(n) \/ WaitWoken(n) \/ WaitTimedOut(n)
    \/ \E c \in Callers : StartStep(c, {TRUE})
    \/ \E c \in Callers : SignalStep(c)
    \/ \E c \in Callers : NotifyStep(c)

SpecNotify == InitStopAll /\ [][NextNotify]_vars

\* stopThread on t1 whose run() loops on wait: the only signal defaultEvent_
\* gets is stopThread's notify().
NextStopWait ==
    \/ \E n \in Natives : NativeStep(n)
    \/ \E n \in Natives : RunWaits(n) \/ WaitWoken(n) \/ WaitTimedOut(n)
    \/ \E c \in Callers : StartStep(c, {TRUE})
    \/ \E c \in Callers : StopStep(c, FALSE)

SpecStopWait == InitPriority /\ [][NextStopWait]_vars

AffinityStep(c) == \E t \in Targets(c), mask \in AffinityArgs : SetAffinityMask(c, t, mask)

\* Start, signal and setAffinityMask on t1, from two calling threads.
NextAffinity ==
    \/ \E n \in Natives : NativeStep(n)
    \/ \E c \in Callers : StartStep(c, {TRUE})
    \/ \E c \in Callers : SignalStep(c)
    \/ \E c \in Callers : AffinityStep(c)

SpecAffinity == InitPriority /\ [][NextAffinity]_vars

\* The steps of a startThread() that was entered from startThread (int) with
\* a null handle (line 140 -> 125-131): the test of line 125 succeeds.
StartBodyStep(c) ==
    \/ StartCreate(c)
    \/ StartStoreHandle(c) \/ StartApplyPriority(c, {TRUE}) \/ StartSignal(c)

SetMaskStep(c) ==
    \E t \in Targets(c), mask \in AffinityArgs \ {0} : SetAffinityMask(c, t, mask)

\* Every operation on t1, all made by one calling thread: startThread (int)
\* and through it startThread(), stopThread, signalThreadShouldExit,
\* waitForThreadToExit, setPriority, setAffinityMask with a mask that is not
\* 0, and notify; and wait inside run().
FrameCallers == {-1}

NextFrame ==
    \/ \E n \in Natives : NativeStep(n)
    \/ \E n \in Natives : RunWaits(n) \/ WaitWoken(n) \/ WaitTimedOut(n)
    \/ \E c \in FrameCallers : StartBodyStep(c)
    \/ \E c \in FrameCallers : PriorityStep(c)
    \/ \E c \in FrameCallers : StopStep(c, FALSE)
    \/ \E c \in FrameCallers : SignalStep(c)
    \/ \E c \in FrameCallers : WaitStep(c)
    \/ \E c \in FrameCallers : SetMaskStep(c)
    \/ \E c \in FrameCallers : NotifyStep(c)

SpecFrame == InitStopAll /\ [][NextFrame]_vars

\* Start and stop on t1 from two calling threads: stopThread is the only
\* operation that sets threadShouldExit_.
NextRestart ==
    \/ \E n \in Natives : NativeStep(n)
    \/ \E c \in Callers : StartStep(c, {TRUE})
    \/ \E c \in Callers : StopStep(c, FALSE)

SpecRestart == InitPriority /\ [][NextRestart]_vars

\* Start and signal on t1, with a note of the gate waits that timed out.
NextGate ==
    \/ \E n \in Natives :
          \/ EntryLock(n) \/ EntryAdd(n) \/ EntrySetId(n)
          \/ EntryGateOpen(n) \/ EntryGateSkips(n)
          \/ RunSeesExit(n)
          \/ ExitLock(n) \/ ExitRemove(n) \/ ExitClearHandle(n) \/ ExitClearId(n)
    \/ \E c \in Callers : StartStep(c, {TRUE})
    \/ \E c \in Callers : SignalStep(c)

SpecGate == InitPriority /\ [][NextGate]_vars

SetPriorityOnlyStep(c) ==
    \/ \E t \in Targets(c), p \in PrioArgs : CallSetPriority(c, t, p)
    \/ SetPriority(c)

\* Start, stop and setPriority on t1 from two calling threads.
NextLocked ==
    \/ \E n \in Natives : NativeStep(n)
    \/ \E c \in Callers : StartStep(c, {TRUE})
    \/ \E c \in Callers : StopStep(c, FALSE)
    \/ \E c \in Callers : SetPriorityOnlyStep(c)

SpecLocked == InitPriority /\ [][NextLocked]_vars

LateStartStep(c) == \E t \in Targets(c) : CallStartThreadLate(c, t)

\* Start and signal on t1, with a note of the gate waits that timed out and
\* of the starts made during the cleanup of a thread that has run.
NextLate ==
    \/ \E n \in Natives :
          \/ EntryLock(n) \/ EntryAdd(n) \/ EntrySetId(n)
          \/ EntryGateOpen(n) \/ EntryGateSkips(n)
          \/ RunSeesExit(n)
          \/ ExitLock(n) \/ ExitRemove(n) \/ ExitClearHandle(n) \/ ExitClearId(n)
    \/ \E c \in Callers : StartStep(c, {TRUE})
    \/ \E c \in Callers : LateStartStep(c)
    \/ \E c \in Callers : SignalStep(c)

SpecLate == InitPriority /\ [][NextLate]_vars

StopFineStep(c) ==
    \/ \E t \in Targets(c), timeOut \in TimeoutsUsed : StopEnter(c, t, timeOut)
    \/ StopTest(c)
    \/ StopBodyStep(c)

\* Start, signal and stop on t1, with the entry of stopThread (line 184) and
\* its test (line 186) as two steps.
NextStopFine ==
    \/ \E n \in Natives : NativeStep(n)
    \/ \E c \in Callers : StartStep(c, {TRUE})
    \/ \E c \in Callers : SignalStep(c)
    \/ \E c \in Callers : StopFineStep(c)

SpecStopFine == InitPriority /\ [][NextStopFine]_vars

WaitLongStep(c) ==
    \/ \E t \in Targets(c), timeOut \in WaitTimeouts : CallWaitForThreadToExit(c, t, timeOut)
    \/ WaitSeesExit(c) \/ WaitTimesOut(c, FALSE) \/ WaitSleeps(c)
    \/ WaitReturns(c)

\* Start, signal and waitForThreadToExit on t1, with a timeout of more than
\* two sleeps among the arguments.
NextSleeps ==
    \/ \E n \in Natives : NativeStep(n)
    \/ \E c \in Callers : StartStep(c, {TRUE})
    \/ \E c \in Callers : SignalStep(c)
    \/ \E c \in Callers : WaitLongStep(c)

SpecSleeps == InitPriority /\ [][NextSleeps]_vars

\* ================================================================ properties
\* line 252-255: getNumRunningThreads() reads the size of the list
GetNumRunningThreads == Len(runningThreads)
\* line 257-272 on the current state
GetCurrentThread(me) == CurrentThreadOf(runningThreads, threadId_, me)

Registered(t) == ArrayContains(runningThreads, t)
NativesOf(t) == {n \in Natives : native[n].of = t}

\* No call is in progress and no native thread of t is inside the entry or
\* exit code of threadEntryPoint.
AtRest(t) ==
    /\ \A c \in Callers : caller[c].pc = "idle"
    /\ \A n \in NativesOf(t) : native[n].pc \in {"run", "finished", "killed"}

\* The step is one that calling thread c takes inside a call of op, on target t.
StepOfCall(c, op, t) ==
    /\ caller'[c] # caller[c]
    /\ \/ caller[c].op = op /\ caller[c].t = t
       \/ caller[c].pc = "idle" /\ caller'[c].op = op /\ caller'[c].t = t

\* The step is the return of a stopThread that went through the forced path.
ForcedStopReturns(c) == caller[c].pc = "sx_remove" /\ caller'[c].pc = "idle"

\* The step is the kill, by a stopThread with a positive timeout, of a thread
\* that is inside run().
ForcedKillInRun(c) ==
    /\ caller[c].pc = "sx_kill" /\ caller'[c].pc = "sx_remove"
    /\ caller[c].arg > 0
    /\ threadHandle_[caller[c].t] \in Natives
    /\ native[threadHandle_[caller[c].t]].pc = "run"

\* The step is setPriority's body, run on an instance whose handle is null.
SetPriorityOnIdle(c) ==
    /\ caller[c].pc = "pr_enter" /\ caller'[c].pc = "idle"
    /\ threadHandle_[caller[c].t] = 0

\* The step is the assignment of line 139, in startThread (int)'s idle branch.
IdleBranchAssigns(c) == caller[c].pc = "sp_set" /\ caller'[c].pc = "st_flag"

\* C1: for every Thread, the instance is in runningThreads if and only if its
\* handle is non-null.  Stated for the states at rest only (no call in
\* progress, no native thread of the instance inside the entry or exit code),
\* which the claim includes.
C1_RegisteredIffRunning ==
    \A t \in Threads :
        AtRest(t) => (Registered(t) <=> IsThreadRunning(threadHandle_[t]))

\* C2: when a stopThread that took the forced path returns, the handle and the
\* thread id are null, the instance is not in runningThreads, and the native
\* thread it held has been given to juce_killThread exactly once.
C2_ForcedStop ==
    [][\A c \in Callers :
          ForcedStopReturns(c) =>
              /\ ~IsThreadRunning(threadHandle_'[caller[c].t])
              /\ threadId_'[caller[c].t] = 0
              /\ ~ArrayContains(runningThreads', caller[c].t)
              /\ caller[c].h \in Natives => native'[caller[c].h].kills = 1]_vars

\* A thread that was killed inside the registered part of its entry point, by
\* a stopThread that has returned.
C2_Witness ==
    \E n \in Natives :
        /\ native[n].pc = "killed" /\ native[n].at = "in" /\ native[n].kills = 1
        /\ threadHandle_[native[n].of] = 0
        /\ ~Registered(native[n].of)
        /\ \A c \in Callers : caller[c].pc = "idle"

\* C3: with a thread that exits within the timeout, a stopThread with a
\* positive timeout never kills a thread that is inside run().
C3_GracefulInTime == [][\A c \in Callers : ~ForcedKillInRun(c)]_vars

\* C4: a stopThread with a positive timeout that has killed its thread is
\* never left waiting for runningThreadsLock in the hands of a killed thread.
C4_StopReturns ==
    \A c \in Callers :
        (caller[c].pc = "sx_remove" /\ caller[c].arg > 0) =>
            ~(runningThreadsLock \in Natives /\ native[runningThreadsLock].pc = "killed")

\* C5: no step of a startThread() call made while the handle is non-null
\* creates a native thread or changes the handle or the thread id.
C5_RedundantStart ==
    [][\A c \in Callers, t \in Threads :
          (StepOfCall(c, "startThread", t) /\ threadHandle_[t] # 0) =>
              /\ created' = created
              /\ threadHandle_'[t] = threadHandle_[t]
              /\ threadId_'[t] = threadId_[t]]_vars

\* A startThread() call that finds a thread inside run().
C5_Witness ==
    \E c \in Callers :
        /\ caller[c].pc = "st_check" /\ caller[c].op = "startThread"
        /\ threadHandle_[caller[c].t] \in Natives
        /\ native[threadHandle_[caller[c].t]].pc = "run"

\* C6: no step of a startThread() call made while the handle is non-null
\* changes threadShouldExit_.
C6_FlagKept ==
    [][\A c \in Callers, t \in Threads :
          (StepOfCall(c, "startThread", t) /\ threadHandle_[t] # 0) =>
              threadShouldExit_'[t] = threadShouldExit_[t]]_vars

\* C7: no step of a startThread (int) call made while the handle is non-null
\* creates or kills a native thread, or changes the handle, the thread id,
\* runningThreads or threadShouldExit_; its setPriority step either sets the
\* cached priority and the live thread's priority, or changes neither.
C7_PriorityOnRunning ==
    [][\A c \in Callers, t \in Threads :
          (StepOfCall(c, "startThreadPriority", t) /\ threadHandle_[t] # 0) =>
              /\ created' = created
              /\ \A n \in Natives : /\ native'[n].pc = native[n].pc
                                    /\ native'[n].kills = native[n].kills
              /\ threadHandle_'[t] = threadHandle_[t]
              /\ threadId_'[t] = threadId_[t]
              /\ runningThreads' = runningThreads
              /\ threadShouldExit_'[t] = threadShouldExit_[t]
              /\ caller[c].pc = "sp_prio" =>
                    \/ /\ threadPriority_'[t] = caller[c].arg
                       /\ IsLive(threadHandle_[t]) =>
                              native'[threadHandle_[t]].prio = caller[c].arg
                    \/ /\ threadPriority_'[t] = threadPriority_[t]
                       /\ native' = native]_vars

\* A thread inside run() whose priority startThread (int) has set.
C7_Witness ==
    \E n \in Natives :
        /\ native[n].pc = "run" /\ native[n].prio \in PrioArgs
        /\ threadHandle_[native[n].of] = n
        /\ threadPriority_[native[n].of] = native[n].prio
        /\ \E c \in Callers : caller[c].pc = "idle" /\ currentPriority[c] = 0

\* C8: on an idle instance setPriority (p) does what the idle branch of
\* startThread (int) does before it calls startThread(): the cached priority
\* becomes p and no thread's OS priority changes.
C8_SameAsIdleBranch ==
    [][\A c \in Callers :
          SetPriorityOnIdle(c) =>
              /\ threadPriority_'[caller[c].t] = caller[c].arg
              /\ currentPriority' = currentPriority]_vars

\* C8, as the code has it: the idle branch of startThread (int) caches p
\* without a platform call; setPriority (p) on an idle instance makes a
\* platform call on the null handle, which names the calling thread, and
\* caches p only when that call works.
C8_IdleBranchAndSetPriority ==
    [][\A c \in Callers :
          /\ IdleBranchAssigns(c) =>
                /\ threadPriority_'[caller[c].t] = caller[c].arg
                /\ currentPriority' = currentPriority
                /\ native' = native
          /\ SetPriorityOnIdle(c) =>
                \/ /\ threadPriority_'[caller[c].t] = caller[c].arg
                   /\ currentPriority'[c] = caller[c].arg
                \/ /\ threadPriority_' = threadPriority_
                   /\ currentPriority' = currentPriority]_vars

\* startThread (int) has cached p on an idle instance, and a setPriority on
\* an idle instance has changed its caller's own priority.
C8_Witness ==
    \E c, d \in Callers :
        /\ caller[c].pc = "st_flag"
        /\ threadPriority_[caller[c].t] = caller[c].arg
        /\ currentPriority[d] \in PrioArgs

Counted(t) ==
    \E n \in NativesOf(t) :
        \/ native[n].pc \in RegisteredPcs
        \/ /\ native[n].pc = "killed" /\ native[n].at = "in"
           /\ \E c \in Callers : caller[c].pc = "sx_remove" /\ caller[c].h = n

C10_CurrentThread ==
    /\ \A n \in Natives : native[n].pc = "run" => GetCurrentThread(n) = native[n].of
    /\ \A c \in Callers : GetCurrentThread(c) = NullThread

\* The step is the return of stopAllThreads: it found the list empty.
StopAllReturns(c) ==
    /\ caller[c].op = "stopAllThreads" /\ caller[c].pc = "sa_pick"
    /\ caller'[c].pc = "idle"

\* C11: when stopAllThreads, called with a positive timeout while no caller
\* starts a thread, returns, runningThreads is empty and no Thread is running.
C11_StopAllStopsAll ==
    [][\A c \in Callers :
          (StopAllReturns(c) /\ caller[c].arg > 0) =>
              /\ runningThreads' = <<>>
              /\ \A t \in Threads : ~IsThreadRunning(threadHandle_'[t])]_vars

\* The step is stopThread's juce_killThread (line 202).
KillStep(c) == caller[c].pc = "sx_kill" /\ caller'[c].pc = "sx_remove"

\* C12: a stopThread (0) never kills a live native thread.
C12_ZeroNeverKills ==
    [][\A c \in Callers :
          (KillStep(c) /\ IsLive(threadHandle_[caller[c].t])) => caller[c].arg # 0]_vars

\* C12, as the code has it: stopThread kills exactly when the test of line 194
\* finds the thread running; that test follows a wait that timed out
\* (timeout > 0) or no wait at all (timeout 0), never a wait without limit
\* (timeout < 0).
C12_KillsWhenStillRunning ==
    [][\A c \in Callers :
          /\ KillStep(c) =>
                \/ caller[c].arg = 0 /\ caller[c].wait = "none"
                \/ caller[c].arg > 0 /\ caller[c].wait = "false"
          /\ (/\ caller[c].pc = "sx_check" /\ caller'[c] # caller[c]
              /\ IsThreadRunning(threadHandle_[caller[c].t])) =>
                caller'[c].pc = "sx_kill"]_vars

\* A stopThread (0) has killed a thread that was inside its entry point.
C12_Witness ==
    \E c \in Callers :
        /\ caller[c].pc = "sx_remove" /\ caller[c].arg = 0
        /\ caller[c].h \in Natives
        /\ native[caller[c].h].pc = "killed"

\* C13: a Thread never has more than one live native thread (one that is
\* executing some part of threadEntryPoint).
C13_OneNativeThread ==
    \A t \in Threads : Cardinality({n \in NativesOf(t) : IsLive(n)}) <= 1

\* The native thread n moves on, and not because it is killed.
Moves(n, from) ==
    native[n].pc = from /\ native'[n].pc \notin {from, "killed"}

\* C14: whether run() returns or faults, the entry point goes through its
\* cleanup: it takes runningThreadsLock, removes its Thread from
\* runningThreads, sets the handle to null and then the thread id to 0.
C14_CleanupRuns ==
    [][\A n \in Natives :
          /\ Moves(n, "run") => native'[n].pc = "exit"
          /\ Moves(n, "exit") => native'[n].pc = "removing"
          /\ Moves(n, "removing") =>
                /\ native'[n].pc = "closing"
                /\ ~ArrayContains(runningThreads', native[n].of)
          /\ Moves(n, "closing") =>
                /\ native'[n].pc = "clearing"
                /\ threadHandle_'[native[n].of] = 0
          /\ Moves(n, "clearing") =>
                /\ native'[n].pc = "finished"
                /\ threadId_'[native[n].of] = 0]_vars

\* A native thread whose run() faulted has ended, and its Thread is idle.
C14_Witness ==
    \E n \in Natives :
        /\ native[n].pc = "finished" /\ native[n].at = "fault"
        /\ threadHandle_[native[n].of] = 0
        /\ threadId_[native[n].of] = 0
        /\ ~Registered(native[n].of)

\* C15: a thread that waits for its own Thread is flagged and is not left in
\* a wait that only its own exit could end; and the assertion never fires
\* for a calling thread that is not the target.
C15_SelfWaitNotBlocked ==
    /\ \A n \in Natives :
          ~(/\ native[n].pc = "selfwait" /\ native[n].at = "asserted"
            /\ native[n].arg <= 0
            /\ threadHandle_[native[n].of] = n)
    /\ \A c \in Callers, t \in Threads : ~SelfCall(threadId_[t], c)

\* The step is the one in which a waitForThreadToExit call gets its result.
WaitEnds(c) ==
    /\ caller[c].op = "waitForThreadToExit"
    /\ caller[c].pc = "sx_wait" /\ caller'[c].pc = "sx_check"

\* C16: waitForThreadToExit returns true only when it saw the handle null,
\* false only when the thread is running and the timeout has been spent, and
\* no step of it changes the Thread objects, runningThreads or a native thread.
C16_WaitResult ==
    [][\A c \in Callers :
          /\ WaitEnds(c) =>
                /\ caller'[c].wait = "true" =>
                      ~IsThreadRunning(threadHandle_[caller[c].t])
                /\ caller'[c].wait = "false" =>
                      /\ IsThreadRunning(threadHandle_[caller[c].t])
                      /\ Elapsed(caller[c].arg, caller[c].count) >= caller[c].arg
          /\ (caller[c].op = "waitForThreadToExit" /\ caller'[c] # caller[c]) =>
                UNCHANGED <<instVars, regVars, natVars>>]_vars

\* The step is the body of a setPriority call.
SetPriorityStep(c) == caller[c].pc = "pr_enter" /\ caller'[c].pc = "idle"

\* C17: setPriority returns true exactly when the platform call on the handle
\* worked: then the cached priority is the new value (and the thread the
\* handle names has it); when it returns false the cached priority and all
\* priorities are as before.  Handle, thread id, flag and runningThreads are
\* unchanged in both cases.
C17_SetPriority ==
    [][\A c \in Callers :
          SetPriorityStep(c) =>
              /\ caller'[c].wait \in {"true", "false"}
              /\ caller'[c].wait = "true" =>
                    /\ threadPriority_'[caller[c].t] = caller[c].arg
                    /\ IsLive(threadHandle_[caller[c].t]) =>
                          native'[threadHandle_[caller[c].t]].prio = caller[c].arg
                    /\ threadHandle_[caller[c].t] = 0 =>
                          currentPriority'[c] = caller[c].arg
              /\ caller'[c].wait = "false" =>
                    /\ threadPriority_' = threadPriority_
                    /\ native' = native
                    /\ currentPriority' = currentPriority
              /\ UNCHANGED <<affinityMask_, threadHandle_, threadId_, threadShouldExit_, runningThreads>>]_vars

\* A setPriority on a thread inside run() has returned false and left the
\* priorities as they were.
C17_Witness ==
    \E c \in Callers, n \in Natives :
        /\ caller[c].pc = "idle" /\ caller[c].wait = "false"
        /\ native[n].pc = "run" /\ native[n].prio = 0
        /\ threadHandle_[native[n].of] = n
        /\ threadPriority_[native[n].of] = DefaultPriority

\* What signalThreadShouldExit() makes of the state: the flag of t is set;
\* handle, thread id, runningThreads, the wake event and the locks are as before.
SignalEffect(t) ==
    /\ threadShouldExit_'[t]
    /\ UNCHANGED <<affinityMask_, threadHandle_, threadId_, runningThreads, defaultEvent_,
                   startStopLock, runningThreadsLock, native>>

\* C18: signalThreadShouldExit() can always be completed by a calling thread
\* that is between calls, and by a thread inside its own run(), whoever holds
\* startStopLock or runningThreadsLock; and it does nothing but set the flag.
C18_SignalOnlySetsFlag ==
    /\ \A c \in Callers, t \in Threads :
          caller[c].pc = "idle" =>
              /\ ENABLED (SignalThreadShouldExit(c, t) /\ SignalEffect(t))
              /\ ~ENABLED (SignalThreadShouldExit(c, t) /\ ~SignalEffect(t))
    /\ \A n \in Natives :
          native[n].pc = "run" =>
              /\ ENABLED (RunSignalsItself(n) /\ SignalEffect(native[n].of))
              /\ ~ENABLED (RunSignalsItself(n) /\ ~SignalEffect(native[n].of))

\* The flag of t1 has been set while another calling thread was inside
\* startThread() and held startStopLock.
C18_Witness ==
    \E c, d \in Callers :
        /\ caller[c].pc = "idle"
        /\ caller[d].pc = "st_store" /\ startStopLock[caller[d].t] = d
        /\ threadShouldExit_[caller[d].t]

\* The step is the return of a wait called inside run().
WaitComesBack(n) == native[n].pc = "waiting" /\ native'[n].pc = "run"

\* C19: a wait returns true exactly when the event of its Thread is signalled
\* at its return, false only on a timeout with the event unsignalled; and a
\* signalled event stays signalled, so that a wait that is blocked at a
\* notify(), or begins after it, returns true.
C19_WaitNotify ==
    [][/\ \A n \in Natives :
             WaitComesBack(n) =>
                 /\ defaultEvent_[native[n].of] => native'[n].at = "woken"
                 /\ ~defaultEvent_[native[n].of] => native'[n].at = "timedout"
       /\ \A t \in Threads : defaultEvent_[t] => defaultEvent_'[t]]_vars

\* Two threads, each notified, have both come back from a wait with true.
C19_Witness ==
    /\ \A t \in Threads : defaultEvent_[t]
    /\ \E n, k \in Natives :
          /\ native[n].of = "t1" /\ native[k].of = "t2"
          /\ native[n].pc = "run" /\ native[n].at = "woken"
          /\ native[k].pc = "run" /\ native[k].at = "woken"

\* The startThread call that created native thread n has not yet stored the
\* handle (line 127) or not yet applied the priority (line 128).
BookkeepingPending(n) ==
    \E c \in Callers : caller[c].h = n /\ caller[c].pc \in {"st_store", "st_prio"}

\* C20: run() never begins (line 70-75) before the startThread call that
\* created the thread has stored the handle and applied the priority.
C20_RunAfterBookkeeping ==
    [][\A n \in Natives :
           (native[n].pc = "gate" /\ native'[n].pc = "run") => ~BookkeepingPending(n)]_vars

\* The lifecycle state of an instance: Idle is a null handle; otherwise the
\* state is where the native thread named by the handle stands in
\* threadEntryPoint ("Dead": the handle names a thread that has ended).
LifeState(t) ==
    IF threadHandle_[t] = 0 THEN "Idle"
    ELSE LET pc == native[threadHandle_[t]].pc
         IN  CASE pc \in {"entry", "adding", "registered", "gate"} -> "Starting"
               [] pc \in {"run", "selfwait", "waiting"} -> "Running"
               [] pc \in {"exit", "removing", "closing", "clearing"} -> "Exiting"
               [] OTHER -> "Dead"

LifeMoves ==
    {<<"Idle", "Starting">>, <<"Starting", "Running">>, <<"Running", "Exiting">>,
     <<"Exiting", "Idle">>, <<"Starting", "Exiting">>,
     <<"Starting", "Idle">>, <<"Running", "Idle">>}

\* The step is the juce_killThread of a stopThread on t.
KillOf(t) ==
    \E c \in Callers : caller[c].pc = "sx_kill" /\ caller[c].t = t /\ caller'[c].pc = "sx_remove"

\* C21: an instance changes its lifecycle state only along Idle -> Starting ->
\* Running -> Exiting -> Idle, Starting -> Exiting (and then only at a gate
\* wait that timed out), or to Idle by a forced kill; run() is entered only
\* from Starting with the start gate signalled.
C21_Lifecycle ==
    [][\A t \in Threads :
          /\ LifeState(t)' # LifeState(t) => <<LifeState(t), LifeState(t)'>> \in LifeMoves
          /\ (LifeState(t) \in {"Starting", "Running"} /\ LifeState(t)' = "Idle") => KillOf(t)
          /\ (LifeState(t) = "Starting" /\ LifeState(t)' = "Exiting")
                 => ~startSuspensionEvent_[t]
          /\ \A n \in NativesOf(t) :
                 (native[n].pc = "gate" /\ native'[n].pc = "run")
                     => LifeState(t) = "Starting" /\ startSuspensionEvent_[t]]_vars

\* No stopThread has entered its forced path so far.
NoForcedStop ==
    /\ \A n \in Natives : native[n].kills = 0
    /\ \A c \in Callers : caller[c].pc \notin {"sx_kill", "sx_remove"}

\* C22: as long as no thread was terminated by force, every instance in
\* runningThreads has a non-null handle.
C22_MembersHaveHandle ==
    NoForcedStop =>
        \A t \in Threads : Registered(t) => IsThreadRunning(threadHandle_[t])

\* A stopThread on t has made its notify() (line 189) and has not yet tested
\* the thread again for the kill (line 194-202).
StopHasNotified(t) ==
    \E c \in Callers :
        /\ caller[c].op \in {"stopThread", "stopAllThreads"} /\ caller[c].t = t
        /\ caller[c].pc \in {"sx_wait", "sx_check", "sx_kill"}

\* C23: a wait() of run() that returns after a stopThread on its instance has
\* made its notify(), and before that stopThread ends, returns true and
\* finds threadShouldExit_ set.
C23_StopWakesWaiter ==
    [][\A n \in Natives :
          (WaitComesBack(n) /\ StopHasNotified(native[n].of)) =>
              /\ native'[n].at = "woken"
              /\ threadShouldExit_'[native[n].of]]_vars

\* The first native thread came back from a wait with true while a stopThread
\* on its instance is waiting for it to exit.
C23_Witness ==
    /\ created = 1 /\ threadHandle_["t1"] = 1
    /\ native[1].pc = "run" /\ native[1].at = "woken"
    /\ threadShouldExit_["t1"]
    /\ \E c \in Callers : caller[c].op = "stopThread" /\ caller[c].pc = "sx_wait"

\* The step is the first part of stopAllThreads (line 276-281).
StopAllBegins(c) == caller[c].pc = "idle" /\ caller'[c].op = "stopAllThreads"

\* C24: the first step of stopAllThreads, made under runningThreadsLock, leaves
\* the flag of every listed instance set, and the steps of its loop up to the
\* stopThread call (line 285-292) change no flag: every listed thread has been
\* asked to exit before the first stopThread begins.
C24_SignalsAllFirst ==
    [][\A c \in Callers :
          /\ StopAllBegins(c) =>
                 /\ runningThreads' = runningThreads
                 /\ \A t \in Threads : Registered(t) => threadShouldExit_'[t]
          /\ (caller[c].pc \in {"sa_pick", "sa_stop"} /\ caller'[c] # caller[c]) =>
                 threadShouldExit_' = threadShouldExit_]_vars

\* A stopAllThreads is about to call stopThread while both instances are
\* listed, inside run() and asked to exit.
C24_Witness ==
    /\ \E c \in Callers : caller[c].pc = "sa_stop"
    /\ \A c \in Callers : caller[c].op \in {"none", "stopAllThreads"}
    /\ \A t \in Threads :
          /\ Registered(t) /\ threadShouldExit_[t]
          /\ threadHandle_[t] \in Natives /\ native[threadHandle_[t]].pc = "run"

\* The step changes runningThreads with runningThreadsLock in the hands of the
\* thread that makes it: a native thread that entered at line 59 or 81, or a
\* stopThread that enters at line 206 a lock that is free.
MutatesUnderLock ==
    \/ /\ runningThreadsLock \in Natives
       /\ native[runningThreadsLock].pc \in {"adding", "removing"}
       /\ native'[runningThreadsLock].pc # native[runningThreadsLock].pc
    \/ /\ runningThreadsLock = 0
       /\ \E c \in Callers : caller[c].pc = "sx_remove" /\ caller'[c].pc # "sx_remove"

\* The lock is free, or held by a native thread that is between line 59 and
\* 61 or between line 81 and 85 and goes on to release it.
LockHeldBriefly ==
    runningThreadsLock # 0 =>
        /\ IsLive(runningThreadsLock)
        /\ native[runningThreadsLock].pc \in {"adding", "removing"}

\* C25: runningThreads changes only under runningThreadsLock, and the lock is
\* never held by a thread that does anything but the add or the remove, so
\* no thread waits for it longer than that.
C25_RegistryLock ==
    [][/\ runningThreads' # runningThreads => MutatesUnderLock
       /\ LockHeldBriefly]_vars

\* C27: setAffinityMask changes affinityMask_ of its instance and nothing
\* else, whether a thread runs or not; a native thread is given an affinity
\* only in the step from the start gate into run(), once, with the mask
\* stored at that time, and only when that mask is not 0.
C27_AffinityAtStartOnly ==
    [][/\ \A t \in Threads :
             affinityMask_'[t] # affinityMask_[t] =>
                 /\ affinityMask_'[t] \in AffinityArgs
                 /\ UNCHANGED <<threadHandle_, threadId_, threadPriority_,
                                threadShouldExit_, startSuspensionEvent_,
                                defaultEvent_, startStopLock, regVars, natVars,
                                currentPriority>>
       /\ \A n \in Natives :
             /\ native'[n].aff # native[n].aff =>
                    /\ native[n].pc = "gate" /\ native'[n].pc = "run"
                    /\ native[n].aff = <<>>
                    /\ affinityMask_[native[n].of] # 0
                    /\ native'[n].aff = <<affinityMask_[native[n].of]>>
             /\ (native[n].pc = "gate" /\ native'[n].pc = "run"
                     /\ affinityMask_[native[n].of] # 0) =>
                    native'[n].aff = <<affinityMask_[native[n].of]>>]_vars

\* A first thread was given affinity 2 and has ended; a second one, started
\* with the mask back at 0, is inside run() with no affinity although the
\* mask has been set to 2 again since.
C27_Witness ==
    /\ affinityMask_["t1"] = 2
    /\ \E n, k \in Natives :
          /\ n < k
          /\ native[n].of = "t1" /\ native[n].pc = "finished" /\ native[n].aff = <<2>>
          /\ native[k].of = "t1" /\ native[k].pc = "run" /\ native[k].aff = <<>>

\* The step is the add of line 60, the remove of line 84 or the remove of
\* line 207, made by the native thread or the stopThread that is there.
RegistryStep ==
    \/ \E n \in Natives :
          /\ native[n].pc = "adding" /\ native'[n].pc = "registered"
          /\ runningThreads' = ArrayAdd(runningThreads, native[n].of)
    \/ \E n \in Natives :
          /\ native[n].pc = "removing" /\ native'[n].pc = "closing"
          /\ runningThreads' = ArrayRemoveValue(runningThreads, native[n].of)
    \/ \E c \in Callers :
          /\ caller[c].pc = "sx_remove" /\ caller'[c].pc # "sx_remove"
          /\ runningThreads' = ArrayRemoveValue(runningThreads, caller[c].t)

\* C26: runningThreads is changed only by threadEntryPoint (line 60, 84) and
\* by the forced path of stopThread (line 207); no step of any other
\* operation changes it.
C26_RegistryFrame == [][runningThreads' # runningThreads => RegistryStep]_vars

\* The instance is listed and its thread is inside run(), back from a wait,
\* after notify, signalThreadShouldExit, setAffinityMask and a setPriority or
\* startThread (int) that worked have been made on it.
C26_Witness ==
    /\ runningThreads = <<"t1">>
    /\ threadHandle_["t1"] \in Natives
    /\ native[threadHandle_["t1"]].pc = "run"
    /\ native[threadHandle_["t1"]].at = "woken"
    /\ native[threadHandle_["t1"]].prio \in PrioArgs
    /\ threadShouldExit_["t1"]
    /\ affinityMask_["t1"] # 0
    /\ \A c \in Callers : caller[c].pc = "idle"

\* A stopThread on t has set the flag (line 188) and has not yet returned.
StopHasSignalled(t) ==
    \E c \in Callers :
        /\ caller[c].op = "stopThread" /\ caller[c].t = t
        /\ caller[c].pc \in {"sx_notify", "sx_wait", "sx_check", "sx_kill", "sx_remove"}

\* C28: a startThread() that finds the handle null creates a native thread
\* for the instance, with the flag clear; a thread that is not the first of
\* its instance never skips run() at the start gate; and when its run()
\* begins the flag is clear unless a stopThread called since has set it.
C28_Restart ==
    [][/\ \A c \in Callers :
             (caller[c].pc = "st_check" /\ caller'[c].pc # "st_check"
                  /\ threadHandle_[caller[c].t] = 0) =>
                 /\ ~threadShouldExit_[caller[c].t]
                 /\ created' = created + 1
                 /\ native'[created'].pc = "entry"
                 /\ native'[created'].of = caller[c].t
       /\ \A n \in Natives :
             /\ (native[n].pc = "gate" /\ native'[n].pc = "exit") =>
                    ~\E k \in 1..(n-1) : native[k].of = native[n].of
             /\ (native[n].pc = "gate" /\ native'[n].pc = "run"
                     /\ threadShouldExit_[native[n].of]) =>
                    StopHasSignalled(native[n].of)]_vars

\* The first thread of t1 has left after a stopThread; the thread of a second
\* startThread() is inside run() and the flag is clear.
C28_Witness ==
    /\ created = 2
    /\ native[1].of = "t1" /\ native[1].pc = "finished" /\ native[1].kills = 0
    /\ native[2].of = "t1" /\ native[2].pc = "run"
    /\ threadHandle_["t1"] = 2
    /\ ~threadShouldExit_["t1"]
    /\ \A c \in Callers : caller[c].pc = "idle"

\* Native thread n skipped run() at the start gate, has ended, and no later
\* thread was created for its instance.
SkippedAndEnded(n) ==
    /\ native[n].pc = "finished" /\ native[n].at = "skipped"
    /\ ~\E k \in Natives : k > n /\ native[k].of = native[n].of

\* C29: once a thread whose gate wait timed out has ended, its instance is
\* idle: not in runningThreads, handle and id null.
C29_TimeoutCleansUp ==
    \A n \in Natives :
        SkippedAndEnded(n) =>
            /\ ~Registered(native[n].of)
            /\ threadId_[native[n].of] = 0
            /\ threadHandle_[native[n].of] = 0

\* Calling thread c is inside a stopThread with a negative timeout.
NegativeStop(c) ==
    caller[c].op = "stopThread" /\ caller[c].arg < 0 /\ caller[c].pc # "idle"

\* C30: a stopThread with a negative timeout never enters the forced path and
\* kills nothing; it returns only when the handle is null after a wait that
\* returned true; and from its entry to its return it holds startStopLock, so
\* that no other calling thread can enter startThread() or the body of
\* setPriority on the instance.
C30_NegativeStopWaits ==
    [][\A c \in Callers :
          NegativeStop(c) =>
              /\ caller[c].pc \notin {"sx_kill", "sx_remove"}
              /\ caller'[c].pc \notin {"sx_kill", "sx_remove"}
              /\ startStopLock[caller[c].t] = c
              /\ \A d \in Callers \ {c} :
                    /\ ~ENABLED CallStartThread(d, caller[c].t)
                    /\ ~ENABLED SetPriority(d)
              /\ caller'[c].pc = "idle" =>
                    /\ ~IsThreadRunning(threadHandle_[caller[c].t])
                    /\ caller[c].wait = "true"
                    /\ startStopLock'[caller[c].t] = 0]_vars

\* A stopThread (-1) sleeps in its wait on a thread that is inside run()
\* while the other calling thread stands at the lock of setPriority.
C30_Witness ==
    \E c, d \in Callers :
        /\ NegativeStop(c) /\ caller[c].pc = "sx_wait"
        /\ caller[d].pc = "pr_enter" /\ caller[d].t = caller[c].t
        /\ threadHandle_[caller[c].t] \in Natives
        /\ native[threadHandle_[caller[c].t]].pc = "run"

\* C31: a startThread() called while the previous thread is between its
\* removal from the list and the clearing of the handle creates a native
\* thread when it comes to the test of line 125.
C31_LateStartCreates ==
    [][\A c \in Callers :
          (caller[c].wait = "late" /\ caller[c].pc = "st_check"
               /\ caller'[c].pc # "st_check") =>
              created' = created + 1]_vars

\* The step is the entry of a stopThread, or its test of line 186 on an
\* instance that is not running.
StopOnIdle(c) ==
    \/ caller[c].pc = "idle" /\ caller'[c].pc = "sx_test"
    \/ /\ caller[c].pc = "sx_test" /\ caller'[c].pc # "sx_test"
       /\ ~IsThreadRunning(threadHandle_[caller[c].t])

\* C32: a stopThread that finds the instance not running returns from its
\* test of line 186; from its entry to its return nothing changes but the
\* owner of startStopLock, which is free again at the return.
C32_StopOnIdleIsNoOp ==
    [][\A c \in Callers :
          StopOnIdle(c) =>
              /\ UNCHANGED <<affinityMask_, threadHandle_, threadId_, threadPriority_,
                             threadShouldExit_, startSuspensionEvent_, defaultEvent_,
                             regVars, natVars, currentPriority>>
              /\ caller[c].pc = "sx_test" =>
                    /\ caller'[c].pc = "idle"
                    /\ startStopLock'[caller[c].t] = 0]_vars

\* A stopThread is at its test on an instance whose thread has ended; flag
\* and wake event are clear.
C32_Witness ==
    \E c \in Callers :
        /\ caller[c].pc = "sx_test"
        /\ threadHandle_[caller[c].t] = 0
        /\ \E n \in NativesOf(caller[c].t) : native[n].pc = "finished"
        /\ ~threadShouldExit_[caller[c].t]
        /\ ~defaultEvent_[caller[c].t]

\* The sleeps a waitForThreadToExit (timeOut) with timeOut > 0 may still make.
SleepsLeft(c) == caller[c].count

\* C33: a waitForThreadToExit (timeOut) with timeOut > 0 starts with
\* floor (timeOut / 5) sleeps to make, every sleep takes one of them, and it
\* returns false exactly when the thread is running and none is left: after
\* floor (timeOut / 5) sleeps, so with timeOut from 1 to 4 after none.  With
\* timeOut <= 0 it never returns false.  It returns true only when the handle
\* is null.
C33_SleepsFloorTimes ==
    [][\A c \in Callers :
          /\ (caller[c].pc = "idle" /\ caller'[c].op = "waitForThreadToExit"
                  /\ caller'[c].arg > 0) =>
                SleepsLeft(c)' = caller'[c].arg \div 5
          /\ (caller[c].op = "waitForThreadToExit" /\ caller[c].pc = "sx_wait"
                  /\ caller'[c] # caller[c]) =>
                /\ caller'[c].pc = "sx_wait" =>
                      /\ caller[c].arg > 0
                      /\ SleepsLeft(c) > 0
                      /\ SleepsLeft(c)' = SleepsLeft(c) - 1
                /\ caller'[c].wait = "false" =>
                      /\ caller[c].arg > 0
                      /\ SleepsLeft(c) = 0
                      /\ IsThreadRunning(threadHandle_[caller[c].t])
                /\ caller'[c].wait = "true" =>
                      ~IsThreadRunning(threadHandle_[caller[c].t])
                /\ (IsThreadRunning(threadHandle_[caller[c].t])
                        /\ caller[c].arg > 0 /\ SleepsLeft(c) = 0) =>
                      caller'[c].wait = "false"]_vars

\* A waitForThreadToExit (12) has returned false on a thread that is inside
\* run(), and a waitForThreadToExit (3) has too.
C33_Witness ==
    /\ \E c \in Callers :
          /\ caller[c].op = "waitForThreadToExit" /\ caller[c].pc = "sx_check"
          /\ caller[c].arg = 12 /\ caller[c].wait = "false"
    /\ \E c \in Callers :
          /\ caller[c].op = "waitForThreadToExit" /\ caller[c].pc = "sx_check"
          /\ caller[c].arg = 3 /\ caller[c].wait = "false"
          /\ threadHandle_[caller[c].t] \in Natives
          /\ native[threadHandle_[caller[c].t]].pc = "run"

\* The number of entries of the registry that are the instance t.
EntriesOf(arr, t) == Cardinality({i \in 1..Len(arr) : arr[i] = t})

\* The step is a removeValue of the instance t: line 84 of its own thread, or
\* line 207 of a stopThread that has killed it.
RemoveValueOf(t) ==
    \/ \E n \in Natives :
          /\ native[n].of = t
          /\ native[n].pc = "removing" /\ native'[n].pc = "closing"
    \/ \E c \in Callers :
          /\ caller[c].t = t
          /\ caller[c].pc = "sx_remove" /\ caller'[c].pc # "sx_remove"

\* C34: the registry never holds an instance twice, and a removeValue of an
\* instance (line 84 or line 207) leaves no entry of it.
C34_NoDuplicates ==
    [][\A t \in Threads :
          /\ EntriesOf(runningThreads', t) <= 1
          /\ RemoveValueOf(t) => EntriesOf(runningThreads', t) = 0]_vars

\* An instance whose first thread was killed is started again and its second
\* thread is in the registry.
C34_Witness ==
    \E t \in Threads : \E n \in NativesOf(t), m \in NativesOf(t) :
        /\ native[n].pc = "killed"
        /\ native[m].pc = "run"
        /\ EntriesOf(runningThreads, t) = 1
====
